---- MODULE Spec2Model ----
(***************************************************************************)
(* Service Discovery Crawler (find_other_company_services.js).             *)
(*                                                                         *)
(* URLs are strings; the classifier works on them character by character  *)
(* (Len, SubSeq and \o are evaluated on strings).  The crawl is a state    *)
(* machine over the three global registries, the crawler's request queue   *)
(* and the request handler's position.                                     *)
(***************************************************************************)
EXTENDS Naturals, Integers, Sequences, FiniteSets, TLC

(***************************************************************************)
(* JavaScript string primitives                                            *)
(***************************************************************************)

\* String.prototype.startsWith
StartsWith(s, p) == Len(p) <= Len(s) /\ SubSeq(s, 1, Len(p)) = p

\* String.prototype.endsWith
EndsWith(s, p) == Len(p) <= Len(s) /\ SubSeq(s, Len(s) - Len(p) + 1, Len(s)) = p

\* String.prototype.includes
Includes(s, p) == \E i \in 1..(Len(s) - Len(p) + 1) : SubSeq(s, i, i + Len(p) - 1) = p

\* The first position >= from at which one of the characters of stops occurs,
\* Len(s) + 1 when none does.
RECURSIVE FirstOf(_, _, _)
FirstOf(s, stops, from) ==
  IF from > Len(s) THEN Len(s) + 1
  ELSE IF SubSeq(s, from, from) \in stops THEN from
  ELSE FirstOf(s, stops, from + 1)

Range26(seq) == {seq[i] : i \in 1..26}

UpperCase == <<"A", "B", "C", "D", "E", "F", "G", "H", "I", "J", "K", "L", "M",
               "N", "O", "P", "Q", "R", "S", "T", "U", "V", "W", "X", "Y", "Z">>
LowerCase == <<"a", "b", "c", "d", "e", "f", "g", "h", "i", "j", "k", "l", "m",
               "n", "o", "p", "q", "r", "s", "t", "u", "v", "w", "x", "y", "z">>

LowerMap == [c \in Range26(UpperCase) |-> LowerCase[CHOOSE i \in 1..26 : UpperCase[i] = c]]

LowerChar(c) == IF c \in DOMAIN LowerMap THEN LowerMap[c] ELSE c

\* String.prototype.toLowerCase
RECURSIVE toLowerCase(_)
toLowerCase(s) ==
  IF Len(s) = 0 THEN "" ELSE LowerChar(SubSeq(s, 1, 1)) \o toLowerCase(SubSeq(s, 2, Len(s)))

\* s.split('/').filter(Boolean): the non-empty '/'-delimited pieces of s
RECURSIVE PathSegments(_)
PathSegments(s) ==
  IF Len(s) = 0 THEN << >>
  ELSE LET cut == FirstOf(s, {"/"}, 1)
           head == SubSeq(s, 1, cut - 1)
           rest == PathSegments(SubSeq(s, cut + 1, Len(s)))
       IN IF head = "" THEN rest ELSE <<head>> \o rest

(***************************************************************************)
(* new URL(url): scheme://host[:port][/path][?query][#fragment], and the   *)
(* opaque mailto: / tel: forms; anything else does not parse (TypeError).  *)
(***************************************************************************)

\* the scheme is matched without regard to case
HasScheme(url, scheme) ==
  Len(scheme) <= Len(url) /\ toLowerCase(SubSeq(url, 1, Len(scheme))) = scheme

SchemeEnd(url) ==
  IF HasScheme(url, "https://") THEN 8
  ELSE IF HasScheme(url, "http://") THEN 7
  ELSE 0

IsOpaque(url) == HasScheme(url, "mailto:") \/ HasScheme(url, "tel:")

HostEnd(url) == FirstOf(url, {"/", "?", "#"}, SchemeEnd(url) + 1) - 1

\* whether new URL(url) succeeds
CanParse(url) ==
  \/ IsOpaque(url)
  \/ /\ SchemeEnd(url) > 0
     /\ HostEnd(url) > SchemeEnd(url)

\* new URL(url).hostname (lower-cased by the parser, port dropped)
hostname(url) ==
  IF IsOpaque(url) THEN ""
  ELSE LET authority == SubSeq(url, SchemeEnd(url) + 1, HostEnd(url))
           portAt == FirstOf(authority, {":"}, 1)
       IN toLowerCase(SubSeq(authority, 1, portAt - 1))

\* new URL(url).pathname ("/" when the URL has no path)
pathname(url) ==
  IF IsOpaque(url)
  THEN LET from == FirstOf(url, {":"}, 1) + 1
       IN SubSeq(url, from, FirstOf(url, {"?", "#"}, from) - 1)
  ELSE LET from == HostEnd(url) + 1
           p == SubSeq(url, from, FirstOf(url, {"?", "#"}, from) - 1)
       IN IF p = "" THEN "/" ELSE p

(***************************************************************************)
(* Configuration                                                           *)
(***************************************************************************)

MAX_REQUESTS_PER_CRAWL == 100

INTERNAL_TOOL_INDICATORS ==
  <<"login", "dashboard", "app", "portal", "admin", "console", "platform",
    "signup", "sign-up", "sign_up", "register", "account", "auth",
    "api", "docs", "documentation", "developer", "dev",
    "tool", "tools", "workspace", "client", "manage", "management",
    "analytics", "report", "reports", "monitor", "monitoring">>

EXCLUDED_DOMAINS ==
  <<"twitter.com", "x.com", "facebook.com", "fb.com", "instagram.com",
    "linkedin.com", "youtube.com", "github.com", "medium.com",
    "discord.com", "discord.gg", "slack.com", "reddit.com",
    "pinterest.com", "tiktok.com">>

Range(seq) == {seq[i] : i \in 1..Len(seq)}

(***************************************************************************)
(* URL classifier                                                          *)
(***************************************************************************)

extractDomainThrows(url) == IF CanParse(url) THEN hostname(url) ELSE "TypeError: Invalid URL"

\* extractDomain: the hostname, '' when the URL does not parse
extractDomain(url) == IF CanParse(url) THEN hostname(url) ELSE ""

SegmentIncludesIndicator(segment, indicator) == Includes(segment, indicator)

\* the segment test shared by isSameCompany and isPotentialDifferentService
SegmentHasIndicator(segment, indicator) ==
  \/ segment = indicator
  \/ StartsWith(segment, indicator \o "-")
  \/ EndsWith(segment, "-" \o indicator)
  \/ Includes(segment, "-" \o indicator \o "-")

hasToolIndicator(path) ==
  \E segment \in Range(PathSegments(path)) :
    \E indicator \in Range(INTERNAL_TOOL_INDICATORS) :
      SegmentHasIndicator(segment, indicator)

isSameCompany(originalDomain, targetUrl) ==
  LET targetDomain == extractDomain(targetUrl)
  IN IF targetDomain = originalDomain THEN TRUE
     ELSE IF EndsWith(targetDomain, "." \o originalDomain) THEN TRUE
     ELSE IF ~CanParse(targetUrl) THEN FALSE
     ELSE hasToolIndicator(toLowerCase(pathname(targetUrl)))

shouldExcludeUrlSuffix(url) ==
  IF StartsWith(url, "mailto:") \/ StartsWith(url, "tel:") THEN TRUE
  ELSE LET domain == extractDomain(url)
       IN \E excludedDomain \in Range(EXCLUDED_DOMAINS) : EndsWith(domain, excludedDomain)

shouldExcludeUrl(url) ==
  IF StartsWith(url, "mailto:") \/ StartsWith(url, "tel:") THEN TRUE
  ELSE LET domain == extractDomain(url)
       IN \E excludedDomain \in Range(EXCLUDED_DOMAINS) :
            domain = excludedDomain \/ EndsWith(domain, "." \o excludedDomain)

isPotentialDifferentServiceNoSubpath(originalUrl, targetUrl) ==
  IF shouldExcludeUrl(targetUrl) THEN FALSE
  ELSE IF ~CanParse(originalUrl) \/ ~CanParse(targetUrl) THEN FALSE
  ELSE IF hostname(originalUrl) # hostname(targetUrl) THEN TRUE
  ELSE hasToolIndicator(toLowerCase(pathname(targetUrl)))

isPotentialDifferentServiceBelowSegment(originalUrl, targetUrl) ==
  IF shouldExcludeUrl(targetUrl) THEN FALSE
  ELSE IF ~CanParse(originalUrl) \/ ~CanParse(targetUrl) THEN FALSE
  ELSE IF hostname(originalUrl) # hostname(targetUrl) THEN TRUE
  ELSE LET targetPath == toLowerCase(pathname(targetUrl))
           originalPath == toLowerCase(pathname(originalUrl))
       IN IF ~hasToolIndicator(targetPath) THEN FALSE
          ELSE IF originalPath # "/" /\ StartsWith(targetPath, originalPath)
                    /\ targetPath # originalPath THEN FALSE
          ELSE TRUE

isPotentialDifferentService(originalUrl, targetUrl) ==
  IF shouldExcludeUrl(targetUrl) THEN FALSE
  ELSE IF ~CanParse(originalUrl) \/ ~CanParse(targetUrl) THEN FALSE
  ELSE IF hostname(originalUrl) # hostname(targetUrl) THEN TRUE
  ELSE LET targetPath == toLowerCase(pathname(targetUrl))
           originalPath == toLowerCase(pathname(originalUrl))
       IN IF ~hasToolIndicator(targetPath) THEN FALSE
          ELSE IF StartsWith(targetPath, originalPath) /\ targetPath # originalPath THEN FALSE
          ELSE TRUE

(***************************************************************************)
(* Bounds of the model and the inputs drawn from them                      *)
(***************************************************************************)

\* non-anchor clickable elements enumerated on one page
MaxCandidates == 2
\* a[href] elements of one rendered document
MaxAnchors == 2

\* the company records of the input file after the status filter
CompanyLists ==
  { <<[name |-> "Acme", url |-> "https://acme.com"]>>,
    <<[name |-> "Acme", url |-> "https://acme.com/"]>> }

\* the input of the sessions that run into the request budget
BudgetCompanies ==
  <<[name |-> "Acme", url |-> "https://acme.com/"],
    [name |-> "Beta", url |-> "https://beta.io/"]>>

\* requests one page adds to the queue, and requests waiting in the queue, in
\* the sessions that run into the request budget
MaxFanout == 2
MaxPending == 3

\* the documents of the web, by the URL the browser reports for them
\* (link.href, page.url()), in document order of their anchors
WebUrls ==
  <<"https://acme.com/", "https://acme.com/admin", "https://tools.acme.com/">>

\* the sub-sequences of seq of at most n elements, in seq's order
RECURSIVE SubSeqsUpTo(_, _)
SubSeqsUpTo(seq, n) ==
  IF Len(seq) = 0 \/ n = 0 THEN { << >> }
  ELSE LET rest == SubSeq(seq, 2, Len(seq))
       IN SubSeqsUpTo(rest, n) \cup { <<seq[1]>> \o t : t \in SubSeqsUpTo(rest, n - 1) }

AnchorLists == SubSeqsUpTo(WebUrls, MaxAnchors)

(***************************************************************************)
(* The classifier and the URL conversions, evaluated once for the URLs of  *)
(* the bounded web; the handler's steps look the results up.               *)
(***************************************************************************)

\* URLs of the pages whose content the scenarios fix
FixtureUrls ==
  {"https://acme.com/blog", "https://x.com/acme", "https://acmehq.io/",
   "https://other.io/app-x"}

CrawlUrls ==
  UNION {{cs[i].url : i \in 1..Len(cs)} : cs \in CompanyLists \cup {BudgetCompanies}}
    \cup Range(WebUrls) \cup FixtureUrls
CompanyNames ==
  UNION {{toLowerCase(cs[i].name) : i \in 1..Len(cs)} : cs \in CompanyLists \cup {BudgetCompanies}}

memoShouldExclude == [u \in CrawlUrls |-> shouldExcludeUrl(u)]
memoDifferentService ==
  [o \in CrawlUrls |-> [t \in CrawlUrls |-> isPotentialDifferentService(o, t)]]
memoDomain == [u \in CrawlUrls |-> extractDomain(u)]
memoContainsName ==
  [u \in CrawlUrls |-> [n \in CompanyNames |-> Includes(toLowerCase(u), n)]]
memoContainsHost ==
  [u \in CrawlUrls |-> [p \in CrawlUrls |-> Includes(u, "://") /\ Includes(u, hostname(p))]]

(***************************************************************************)
(* State                                                                   *)
(***************************************************************************)

VARIABLES
  companies,                   \* activeCompanies of loadAndProcessCompanies
  ci,                          \* index of the company of the for loop
  sessionPc,                   \* "idle" | "crawling" | "finished"
  allExploredUrls,             \* global registry: request url -> list
  potentialDifferentServices,  \* global registry: start url -> list
  startUrlChildren,            \* global registry: start url -> list
  queue,                       \* the crawler's pending requests, in order
  known,                       \* unique keys of every request ever added
  handledRequestsCount,        \* requests the crawler finished (done or failed)
  running,                     \* request handlers in flight
  dataset,                     \* records pushed to the 'company-services' dataset
  processed,                   \* requests finished since the session began
  web,                         \* the pages whose content is fixed: url -> content
  cls,                         \* a classifier call: its arguments and what it returned
  input,                       \* process.argv[2] and the file it names
  openPages                    \* pages that clicks opened and nothing has closed

vars == <<companies, ci, sessionPc, allExploredUrls, potentialDifferentServices,
          startUrlChildren, queue, known, handledRequestsCount, running, dataset,
          processed, web, cls, input, openPages>>

registries == <<allExploredUrls, potentialDifferentServices, startUrlChildren>>

\* no classifier call is followed
NoCall == [pc |-> "none"]

\* the session starts from the company records already read from the file
NoInput == [argv |-> "companies.json", file |-> "read", data |-> << >>]

\* the pages clicks leave open are not followed / are followed from none open
NotFollowed == [followed |-> FALSE, pages |-> {}]
NoneOpen == [followed |-> TRUE, pages |-> {}]

\* maxConcurrency, maxRequestRetries of the PlaywrightCrawler options
maxConcurrency == 1
maxRequestRetries == 2

(***************************************************************************)
(* The crawler library as the handler sees it                              *)
(***************************************************************************)

\* the URL the browser reports for a loaded url: a path is always present
BrowserUrlOf(url) == IF HostEnd(url) = Len(url) THEN url \o "/" ELSE url
memoBrowserUrl == [u \in CrawlUrls |-> BrowserUrlOf(u)]
BrowserUrl(url) == memoBrowserUrl[url]

\* the key the request queue deduplicates on: fragment and trailing slash dropped
uniqueKeyOf(url) ==
  LET noFrag == SubSeq(url, 1, FirstOf(url, {"#"}, 1) - 1)
  IN IF EndsWith(noFrag, "/") THEN SubSeq(noFrag, 1, Len(noFrag) - 1) ELSE noFrag
memoUniqueKey == [u \in CrawlUrls |-> uniqueKeyOf(u)]
uniqueKey(url) == memoUniqueKey[url]

ChildRequestOwnDomain(targetUrl, url, originalDomain, companyName) ==
  [url |-> targetUrl, label |-> "child", parentUrl |-> url,
   originalDomain |-> memoDomain[targetUrl], companyName |-> companyName, retryCount |-> 0]

\* the request objects of lines 397-405, 485-493 and 534-540
ChildRequest(targetUrl, url, originalDomain, companyName) ==
  [url |-> targetUrl, label |-> "child", parentUrl |-> url,
   originalDomain |-> originalDomain, companyName |-> companyName, retryCount |-> 0]

\* the request objects of lines 558-568
StartRequest(company) ==
  [url |-> company.url, label |-> "start", parentUrl |-> "",
   originalDomain |-> memoDomain[company.url],
   companyName |-> toLowerCase(company.name), retryCount |-> 0]

\* crawler.addRequests([req]) on a store s: a request whose key is known is dropped
addRequests(s, req) ==
  IF uniqueKey(req.url) \in s.known THEN s
  ELSE [s EXCEPT !.queue = Append(@, req), !.known = @ \cup {uniqueKey(req.url)}]

PushAlways(list, u) == Append(list, u)

\* list.includes(u) || list.push(u)
PushIfAbsent(list, u) == IF u \in Range(list) THEN list ELSE Append(list, u)

\* the mutable state one handler step works on
Store == [ex |-> allExploredUrls, pds |-> potentialDifferentServices,
          suc |-> startUrlChildren, queue |-> queue, known |-> known, threw |-> FALSE]

SetStore(s) ==
  /\ allExploredUrls' = s.ex
  /\ potentialDifferentServices' = s.pds
  /\ startUrlChildren' = s.suc
  /\ queue' = s.queue
  /\ known' = s.known

(***************************************************************************)
(* findCompanyServices: reset, crawler construction, initial requests      *)
(***************************************************************************)

Init ==
  /\ companies \in CompanyLists
  /\ ci = 1
  /\ sessionPc = "idle"
  /\ allExploredUrls = << >>
  /\ potentialDifferentServices = << >>
  /\ startUrlChildren = << >>
  /\ queue = << >>
  /\ known = {}
  /\ handledRequestsCount = 0
  /\ running = {}
  /\ dataset = << >>
  /\ processed = 0
  /\ web = << >>
  /\ cls = NoCall
  /\ input = NoInput
  /\ openPages = NotFollowed

StartCrawlKeepsRegistries ==
  /\ sessionPc = "idle"
  /\ ci <= Len(companies)
  /\ LET company == companies[ci]
         keep(registry) == [k \in DOMAIN registry \cup {company.url} |->
                              IF k \in DOMAIN registry THEN registry[k] ELSE << >>]
     IN /\ allExploredUrls' = allExploredUrls
        /\ potentialDifferentServices' = keep(potentialDifferentServices)
        /\ startUrlChildren' = keep(startUrlChildren)
        /\ IF "name" \notin DOMAIN company
           THEN /\ sessionPc' = "exit1"
                /\ UNCHANGED <<queue, known, handledRequestsCount>>
           ELSE /\ sessionPc' = "crawling"
                /\ \E fresh \in BOOLEAN :
                     LET req == StartRequest(company)
                     IN IF fresh
                        THEN /\ queue' = <<req>>
                             /\ known' = {uniqueKey(req.url)}
                             /\ handledRequestsCount' = 0
                        ELSE /\ queue' = queue \o <<req>>
                             /\ known' = known \cup {uniqueKey(req.url)}
                             /\ handledRequestsCount' = handledRequestsCount
  /\ running' = {}
  /\ UNCHANGED <<companies, ci, dataset, processed, web, cls, input, openPages>>

\* lines 164-174, 180-189 and 557-570: the registries are reset, a crawler is
\* built and the start request of the company is added.  The source gives the
\* crawler no request queue of its own, so what the crawler starts from is the
\* library's: a fresh queue (nothing waiting, no request handled), or the
\* default queue of the process with the requests, the unique keys and the
\* count of handled requests the previous crawl left in it.
StartCrawl ==
  /\ sessionPc = "idle"
  /\ ci <= Len(companies)
  /\ LET company == companies[ci]
     IN /\ allExploredUrls' = << >>
        /\ potentialDifferentServices' = [k \in {company.url} |-> << >>]
        /\ startUrlChildren' = [k \in {company.url} |-> << >>]
        /\ IF "name" \notin DOMAIN company
           THEN \* line 565: company.name.toLowerCase() on a record without name
                \* throws; the error leaves loadAndProcessCompanies (lines
                \* 627-630) and ends the process (lines 641-645)
                /\ sessionPc' = "exit1"
                /\ UNCHANGED <<queue, known, handledRequestsCount>>
           ELSE /\ sessionPc' = "crawling"
                /\ \E fresh \in BOOLEAN :
                     LET req == StartRequest(company)
                     IN IF fresh
                        THEN /\ queue' = <<req>>
                             /\ known' = {uniqueKey(req.url)}
                             /\ handledRequestsCount' = 0
                        ELSE /\ queue' = queue \o <<req>>
                             /\ known' = known \cup {uniqueKey(req.url)}
                             /\ handledRequestsCount' = handledRequestsCount
  /\ running' = {}
  /\ UNCHANGED <<companies, ci, dataset, processed, web, cls, input, openPages>>

(***************************************************************************)
(* The crawler's scheduling: maxConcurrency, maxRequestsPerCrawl, retries  *)
(***************************************************************************)

CanStartRequestLateStop(runningCount, handled) ==
  runningCount < maxConcurrency /\ handled <= MAX_REQUESTS_PER_CRAWL

CanStartRequestUnlimited(runningCount, handled) ==
  handled < MAX_REQUESTS_PER_CRAWL

\* whether the pool may start another request
CanStartRequest(runningCount, handled) ==
  runningCount < maxConcurrency /\ handled < MAX_REQUESTS_PER_CRAWL

FetchNext ==
  /\ sessionPc = "crawling"
  /\ CanStartRequest(Cardinality(running), handledRequestsCount)
  /\ queue # << >>
  /\ running' = running \cup
       { [request |-> Head(queue), pc |-> "Loading", loadedUrl |-> "", pageUrl |-> "",
          idx |-> 0, ncand |-> 0, opened |-> "", newPage |-> "", resolved |-> "",
          anchors |-> << >>] }
  /\ queue' = Tail(queue)
  /\ UNCHANGED <<companies, ci, sessionPc, registries, known, handledRequestsCount,
                 dataset, processed, web, cls, input, openPages>>

RequestErrorRequeues(h, q) ==
  /\ running' = running \ {h}
  /\ IF h.request.retryCount < maxRequestRetries
     THEN /\ queue' = Append(q, [h.request EXCEPT !.retryCount = @ + 1])
          /\ UNCHANGED <<handledRequestsCount, processed>>
     ELSE /\ queue' = Append(q, h.request)
          /\ handledRequestsCount' = handledRequestsCount + 1
          /\ processed' = processed + 1

RequestErrorRetriesForever(h, q) ==
  /\ running' = running \ {h}
  /\ queue' = Append(q, h.request)
  /\ UNCHANGED <<handledRequestsCount, processed>>

\* an error of the navigation or of the request handler: the request is put back
\* for a retry, and after maxRequestRetries retries failedRequestHandler runs
RequestError(h, q) ==
  /\ running' = running \ {h}
  /\ IF h.request.retryCount < maxRequestRetries
     THEN /\ queue' = Append(q, [h.request EXCEPT !.retryCount = @ + 1])
          /\ UNCHANGED <<handledRequestsCount, processed>>
     ELSE /\ queue' = q
          /\ handledRequestsCount' = handledRequestsCount + 1
          /\ processed' = processed + 1

NavigationFails(h) ==
  /\ h.pc = "Loading"
  /\ RequestError(h, queue)
  /\ UNCHANGED <<companies, ci, sessionPc, registries, known, dataset, web, cls, input, openPages>>

(***************************************************************************)
(* requestHandler                                                          *)
(***************************************************************************)

AfterProbe(h) == IF h.idx > h.ncand THEN "ExtractingLinks" ELSE "Probing"

\* lines 215-225: the explored list of the request, the child registration
Prologue(s, req) ==
  LET s1 == IF req.url \in DOMAIN s.ex THEN s
            ELSE [s EXCEPT !.ex = @ @@ (req.url :> << >>)]
  IN IF /\ req.label = "child"
        /\ req.parentUrl # ""
        /\ req.parentUrl \in DOMAIN s1.suc
     THEN [s1 EXCEPT !.suc[req.parentUrl] = PushIfAbsent(@, req.url)]
     ELSE s1

\* lines 207-349: the page is loaded, the prologue runs and the clickable
\* elements are enumerated
HandlerBegin(h) ==
  /\ h.pc = "Loading"
  /\ \E n \in 0..MaxCandidates :
       /\ h.request.url \in DOMAIN web => n = Len(web[h.request.url].candidates)
       /\ LET h1 == [h EXCEPT !.loadedUrl = BrowserUrl(h.request.url),
                           !.pageUrl = BrowserUrl(h.request.url),
                           !.idx = 1, !.ncand = n]
          IN running' = (running \ {h}) \cup {[h1 EXCEPT !.pc = AfterProbe(h1)]}
  /\ SetStore(Prologue(Store, h.request))
  /\ UNCHANGED <<companies, ci, sessionPc, handledRequestsCount, dataset, processed, web, cls, input, openPages>>

IsOriginalUrlNever(resolved, url) == FALSE

\* lines 376-381 and 423: a resolved URL equal to the request URL is skipped
IsOriginalUrl(resolved, url) == resolved = url

NewPageFoundUnderParent(s, req, newUrl) ==
  IF IsOriginalUrl(newUrl, req.url) THEN s
  ELSE LET s1 == [s EXCEPT !.ex[req.url] = PushIfAbsent(@, newUrl)]
       IN IF req.label = "start"
          THEN LET s2 == [s1 EXCEPT !.pds[req.url] = PushIfAbsent(@, newUrl)]
                   s3 == addRequests(s2, ChildRequest(newUrl, req.url, req.originalDomain,
                                                      req.companyName))
               IN [s3 EXCEPT !.suc[req.url] = PushIfAbsent(@, newUrl)]
          ELSE IF req.parentUrl \in DOMAIN s1.ex
               THEN [s1 EXCEPT !.ex[req.parentUrl] = PushIfAbsent(@, newUrl)]
               ELSE s1

NewPageFoundAnyLabel(s, req, newUrl) ==
  IF IsOriginalUrl(newUrl, req.url) THEN s
  ELSE LET s1 == [s EXCEPT !.ex[req.url] = PushIfAbsent(@, newUrl)]
           s3 == addRequests(s1, ChildRequest(newUrl, req.url, req.originalDomain,
                                              req.companyName))
       IN IF req.label = "start"
          THEN [s3 EXCEPT !.pds[req.url] = PushIfAbsent(@, newUrl),
                          !.suc[req.url] = PushIfAbsent(@, newUrl)]
          ELSE s3

NewPageFoundNotEnqueued(s, req, newUrl) ==
  IF IsOriginalUrl(newUrl, req.url) THEN s
  ELSE LET s1 == [s EXCEPT !.ex[req.url] = PushIfAbsent(@, newUrl)]
       IN IF req.label = "start"
          THEN [s1 EXCEPT !.pds[req.url] = PushIfAbsent(@, newUrl),
                          !.suc[req.url] = PushIfAbsent(@, newUrl)]
          ELSE s1

\* lines 383-411: the URL of a new page
NewPageFound(s, req, newUrl) ==
  IF IsOriginalUrl(newUrl, req.url) THEN s
  ELSE LET s1 == [s EXCEPT !.ex[req.url] = PushIfAbsent(@, newUrl)]
       IN IF req.label = "start"
          THEN LET s2 == [s1 EXCEPT !.pds[req.url] = PushIfAbsent(@, newUrl)]
                   s3 == addRequests(s2, ChildRequest(newUrl, req.url, req.originalDomain,
                                                      req.companyName))
               IN [s3 EXCEPT !.suc[req.url] = PushIfAbsent(@, newUrl)]
          ELSE s1

PageUrlComparedSkipsExplored(s, req, currentUrl) ==
  IF IsOriginalUrl(currentUrl, req.url) \/ req.label # "start" THEN s
  ELSE [s EXCEPT !.pds[req.url] = PushIfAbsent(@, currentUrl)]

\* lines 416-439: no new page, the URL of the page after the settle wait
PageUrlCompared(s, req, currentUrl) ==
  IF IsOriginalUrl(currentUrl, req.url) THEN s
  ELSE LET s1 == [s EXCEPT !.ex[req.url] = PushIfAbsent(@, currentUrl)]
       IN IF req.label = "start"
          THEN [s1 EXCEPT !.pds[req.url] = PushIfAbsent(@, currentUrl)]
          ELSE s1

\* lines 360-366: the wait for the 'page' event starts once click() has returned,
\* so it sees a page opened after that and misses one opened before
NewPageDetected(popup) == popup.at = "afterClickReturns"

Popups ==
  {[at |-> "none", url |-> ""]} \cup
  {[at |-> t, url |-> u] : t \in {"beforeClickReturns", "afterClickReturns"},
                            u \in Range(WebUrls)}

\* lines 360-414: newPage.close() is called on the page the wait returned, at
\* line 379 or 414; a page the wait missed is held by no variable of the handler
LeftOpen(popup) ==
  IF openPages.followed /\ popup.at # "none" /\ ~NewPageDetected(popup)
  THEN [openPages EXCEPT !.pages = @ \cup {popup.url}]
  ELSE openPages

ProbeCandidateAborting(h) ==
  /\ h.pc = "Probing"
  /\ \E clickOk \in BOOLEAN, popup \in Popups, navigated \in {h.pageUrl} \cup Range(WebUrls) :
       /\ ~clickOk => (popup.at = "none" /\ navigated = h.pageUrl)
       /\ popup.at # "none" => navigated = h.pageUrl
       /\ h.request.url \in DOMAIN web =>
            /\ clickOk = (web[h.request.url].candidates[h.idx].click = "ok")
            /\ popup.url = web[h.request.url].candidates[h.idx].opens
       /\ IF ~clickOk
          THEN /\ RequestError(h, queue)
               /\ UNCHANGED <<registries, known>>
          ELSE /\ LET newPage == IF NewPageDetected(popup) THEN popup.url ELSE ""
                      h1 == [h EXCEPT !.idx = @ + 1, !.pageUrl = navigated,
                                       !.opened = popup.url, !.newPage = newPage,
                                       !.resolved = IF newPage # "" THEN newPage ELSE navigated]
                  IN running' = (running \ {h}) \cup {[h1 EXCEPT !.pc = AfterProbe(h1)]}
               /\ IF NewPageDetected(popup)
                  THEN SetStore(NewPageFound(Store, h.request, popup.url))
                  ELSE SetStore(PageUrlCompared(Store, h.request, navigated))
               /\ UNCHANGED <<handledRequestsCount, processed>>
       /\ openPages' = LeftOpen(popup)
  /\ UNCHANGED <<companies, ci, sessionPc, dataset, web, cls, input>>

\* lines 352-448, one candidate: the click, the wait for a new page, and either
\* the new page's URL or the page's own URL after the wait
ProbeCandidate(h) ==
  /\ h.pc = "Probing"
  /\ \E clickOk \in BOOLEAN, popup \in Popups, navigated \in {h.pageUrl} \cup Range(WebUrls) :
       /\ ~clickOk => (popup.at = "none" /\ navigated = h.pageUrl)
       /\ popup.at # "none" => navigated = h.pageUrl
       /\ h.request.url \in DOMAIN web =>
            /\ clickOk = (web[h.request.url].candidates[h.idx].click = "ok")
            /\ popup.url = web[h.request.url].candidates[h.idx].opens
       /\ LET newPage == IF NewPageDetected(popup) THEN popup.url ELSE ""
              h1 == [h EXCEPT !.idx = @ + 1, !.pageUrl = navigated,
                               !.opened = popup.url, !.newPage = newPage,
                               !.resolved = IF newPage # "" THEN newPage ELSE navigated]
          IN running' = (running \ {h}) \cup {[h1 EXCEPT !.pc = AfterProbe(h1)]}
       /\ IF NewPageDetected(popup)
          THEN SetStore(NewPageFound(Store, h.request, popup.url))
          ELSE SetStore(PageUrlCompared(Store, h.request, navigated))
       /\ openPages' = LeftOpen(popup)
  /\ UNCHANGED <<companies, ci, sessionPc, handledRequestsCount, dataset, processed, web, cls, input>>

\* lines 451-460: the absolute hrefs that do not contain the document's hostname
RECURSIVE SelectSeq2(_, _)
SelectSeq2(seq, keep) ==
  IF seq = << >> THEN << >>
  ELSE (IF Head(seq) \in keep THEN <<Head(seq)>> ELSE << >>) \o SelectSeq2(Tail(seq), keep)

crossDomainLinks(anchors, pageUrl) ==
  SelectSeq2(anchors, {href \in Range(anchors) :
                         Includes(href, "://") /\ ~memoContainsHost[href][pageUrl]})

CrossDomainLinkCreatesEntries(s, req, targetUrl) ==
  IF s.threw \/ memoShouldExclude[targetUrl] THEN s
  ELSE IF ~memoContainsName[targetUrl][req.companyName] THEN s
  ELSE LET s0 == [s EXCEPT !.pds = IF req.url \in DOMAIN @ THEN @ ELSE @ @@ (req.url :> << >>),
                           !.suc = IF req.url \in DOMAIN @ THEN @ ELSE @ @@ (req.url :> << >>)]
           s1 == [s0 EXCEPT !.ex[req.url] = PushIfAbsent(@, targetUrl),
                            !.pds[req.url] = PushIfAbsent(@, targetUrl)]
           s2 == addRequests(s1, ChildRequest(targetUrl, req.url, req.originalDomain,
                                              req.companyName))
       IN [s2 EXCEPT !.suc[req.url] = PushIfAbsent(@, targetUrl)]

CrossDomainLinkGuarded(s, req, targetUrl) ==
  IF s.threw \/ memoShouldExclude[targetUrl] THEN s
  ELSE IF ~memoContainsName[targetUrl][req.companyName] THEN s
  ELSE LET s1 == [s EXCEPT !.ex[req.url] = PushIfAbsent(@, targetUrl)]
           s2 == IF req.url \in DOMAIN s1.pds
                 THEN [s1 EXCEPT !.pds[req.url] = PushIfAbsent(@, targetUrl)] ELSE s1
           s3 == addRequests(s2, ChildRequest(targetUrl, req.url, req.originalDomain,
                                              req.companyName))
       IN IF req.url \in DOMAIN s3.suc
          THEN [s3 EXCEPT !.suc[req.url] = PushIfAbsent(@, targetUrl)] ELSE s3

CrossDomainLinkAcceptsExcluded(s, req, targetUrl) ==
  IF s.threw THEN s
  ELSE IF ~memoContainsName[targetUrl][req.companyName] THEN s
  ELSE LET s1 == [s EXCEPT !.ex[req.url] = PushIfAbsent(@, targetUrl)]
       IN IF req.url \notin DOMAIN s1.pds THEN [s1 EXCEPT !.threw = TRUE]
          ELSE LET s2 == [s1 EXCEPT !.pds[req.url] = PushIfAbsent(@, targetUrl)]
                   s3 == addRequests(s2, ChildRequest(targetUrl, req.url, req.originalDomain,
                                                      req.companyName))
               IN IF req.url \notin DOMAIN s3.suc THEN [s3 EXCEPT !.threw = TRUE]
                  ELSE [s3 EXCEPT !.suc[req.url] = PushIfAbsent(@, targetUrl)]

\* lines 463-500, one link; potentialDifferentServices[url] and
\* startUrlChildren[url] exist for start URLs only (lines 171-174), and
\* .includes on a missing entry raises a TypeError
CrossDomainLink(s, req, targetUrl) ==
  IF s.threw \/ memoShouldExclude[targetUrl] THEN s
  ELSE IF ~memoContainsName[targetUrl][req.companyName] THEN s
  ELSE LET s1 == [s EXCEPT !.ex[req.url] = PushIfAbsent(@, targetUrl)]
       IN IF req.url \notin DOMAIN s1.pds THEN [s1 EXCEPT !.threw = TRUE]
          ELSE LET s2 == [s1 EXCEPT !.pds[req.url] = PushIfAbsent(@, targetUrl)]
                   s3 == addRequests(s2, ChildRequest(targetUrl, req.url, req.originalDomain,
                                                      req.companyName))
               IN IF req.url \notin DOMAIN s3.suc THEN [s3 EXCEPT !.threw = TRUE]
                  ELSE [s3 EXCEPT !.suc[req.url] = PushIfAbsent(@, targetUrl)]

RECURSIVE CrossDomainLoop(_, _, _)
CrossDomainLoop(s, req, links) ==
  IF links = << >> THEN s
  ELSE CrossDomainLoop(CrossDomainLink(s, req, Head(links)), req, Tail(links))

\* the a[href] lists a page can hold: the fixed one of a page of web, any
\* otherwise
AnchorsOf(url) == IF url \in DOMAIN web THEN {web[url].anchors} ELSE AnchorLists

\* lines 450-500: the anchors of the document the page is at are read and the
\* cross-domain ones processed; an error leaves the handler
ExtractLinks(h) ==
  /\ h.pc = "ExtractingLinks"
  /\ \E anchors \in AnchorsOf(h.request.url) :
       /\ LET s == CrossDomainLoop(Store, h.request, crossDomainLinks(anchors, h.pageUrl))
          IN /\ allExploredUrls' = s.ex
             /\ potentialDifferentServices' = s.pds
             /\ startUrlChildren' = s.suc
             /\ known' = s.known
             /\ IF s.threw
                THEN RequestError(h, s.queue)
                ELSE /\ queue' = s.queue
                     /\ running' = (running \ {h}) \cup
                          {[h EXCEPT !.pc = "Enqueuing", !.anchors = anchors,
                                     !.opened = "", !.newPage = "", !.resolved = ""]}
                     /\ UNCHANGED <<handledRequestsCount, processed>>
  /\ UNCHANGED <<companies, ci, sessionPc, dataset, web, cls, input, openPages>>

transformRequestFunctionUnrecorded(s, req, targetUrl) ==
  IF memoShouldExclude[targetUrl] \/ targetUrl = req.url THEN s
  ELSE LET s1 == [s EXCEPT !.ex[req.url] = PushIfAbsent(@, targetUrl)]
           isDifferentService == memoDifferentService[req.url][targetUrl]
           isDifferentSubdomain == memoDomain[req.url] # memoDomain[targetUrl]
       IN IF isDifferentService \/ isDifferentSubdomain
          THEN addRequests(s1, ChildRequest(targetUrl, req.url, req.originalDomain,
                                            req.companyName))
          ELSE s1

transformRequestFunctionEnqueuesAll(s, req, targetUrl) ==
  IF memoShouldExclude[targetUrl] \/ targetUrl = req.url THEN s
  ELSE LET s1 == [s EXCEPT !.ex[req.url] = PushIfAbsent(@, targetUrl)]
       IN addRequests([s1 EXCEPT !.pds[req.url] = PushIfAbsent(@, targetUrl)],
                      ChildRequest(targetUrl, req.url, req.originalDomain, req.companyName))

\* lines 507-544: transformRequestFunction on one extracted link
transformRequestFunction(s, req, targetUrl) ==
  IF memoShouldExclude[targetUrl] \/ targetUrl = req.url THEN s
  ELSE LET s1 == [s EXCEPT !.ex[req.url] = PushIfAbsent(@, targetUrl)]
           isDifferentService == memoDifferentService[req.url][targetUrl]
           isDifferentSubdomain == memoDomain[req.url] # memoDomain[targetUrl]
       IN IF isDifferentService \/ isDifferentSubdomain
          THEN addRequests([s1 EXCEPT !.pds[req.url] = PushIfAbsent(@, targetUrl)],
                           ChildRequest(targetUrl, req.url, req.originalDomain, req.companyName))
          ELSE s1

RECURSIVE enqueueLinks(_, _, _)
enqueueLinks(s, req, links) ==
  IF links = << >> THEN s
  ELSE enqueueLinks(transformRequestFunction(s, req, Head(links)), req, Tail(links))

\* strategy 'same-hostname': the links on the hostname of the loaded URL
sameHostnameLinks(anchors, loadedUrl) ==
  SelectSeq2(anchors, {href \in Range(anchors) : memoDomain[href] = memoDomain[loadedUrl]})

\* lines 502-549: links are enqueued from start URLs only; the handler returns
EnqueueLinks(h) ==
  /\ h.pc = "Enqueuing"
  /\ IF h.request.label = "start"
     THEN SetStore(enqueueLinks(Store, h.request, sameHostnameLinks(h.anchors, h.loadedUrl)))
     ELSE UNCHANGED <<registries, queue, known>>
  /\ running' = running \ {h}
  /\ handledRequestsCount' = handledRequestsCount + 1
  /\ processed' = processed + 1
  /\ UNCHANGED <<companies, ci, sessionPc, dataset, web, cls, input, openPages>>

(***************************************************************************)
(* The end of crawler.run and the output records                           *)
(***************************************************************************)

ResultsUnfiltered(cs) ==
  [i \in 1..Len(cs) |->
     [url |-> cs[i].url,
      potentialDifferentServices |->
        IF cs[i].url \in DOMAIN potentialDifferentServices
        THEN potentialDifferentServices[cs[i].url] ELSE << >>,
      allExploredUrls |-> IF cs[i].url \in DOMAIN allExploredUrls
                          THEN allExploredUrls[cs[i].url] ELSE << >>]]

\* lines 573-585
Results(cs) ==
  [i \in 1..Len(cs) |->
     LET startUrl == cs[i].url
         services == IF startUrl \in DOMAIN potentialDifferentServices
                     THEN potentialDifferentServices[startUrl] ELSE << >>
     IN [url |-> startUrl,
         potentialDifferentServices |-> SelectSeq2(services, Range(services) \ {startUrl}),
         allExploredUrls |-> IF startUrl \in DOMAIN allExploredUrls
                             THEN allExploredUrls[startUrl] ELSE << >>]]

CrawlerIdleEarly == running = {}

\* crawler.run returns once nothing is running and nothing may be started
CrawlerIdle ==
  /\ running = {}
  /\ queue = << >> \/ handledRequestsCount >= MAX_REQUESTS_PER_CRAWL

\* lines 570-595 and the loop of lines 617-623
FinishCrawl ==
  /\ sessionPc = "crawling"
  /\ CrawlerIdle
  /\ dataset' = dataset \o << [results |-> Results(<<companies[ci]>>)],
                             [startUrlChildren |-> startUrlChildren] >>
  /\ ci' = ci + 1
  /\ sessionPc' = IF ci + 1 > Len(companies) THEN "finished" ELSE "idle"
  /\ UNCHANGED <<companies, registries, queue, known, handledRequestsCount, running,
                 processed, web, cls, input, openPages>>

Next ==
  \/ StartCrawl
  \/ FetchNext
  \/ \E h \in running : NavigationFails(h)
  \/ \E h \in running : HandlerBegin(h)
  \/ \E h \in running : ProbeCandidate(h)
  \/ \E h \in running : ExtractLinks(h)
  \/ \E h \in running : EnqueueLinks(h)
  \/ FinishCrawl

Spec == Init /\ [][Next]_vars

(***************************************************************************)
(* The end-to-end scenario: the seed Acme whose homepage holds an anchor   *)
(* to /admin and one button that opens tools.acme.com in a new page.       *)
(***************************************************************************)

AcmeSeed == "https://acme.com"
AcmeAdmin == "https://acme.com/admin"
AcmeTools == "https://tools.acme.com/"

InitScenario ==
  /\ companies = <<[name |-> "Acme", url |-> AcmeSeed]>>
  /\ ci = 1
  /\ sessionPc = "idle"
  /\ allExploredUrls = << >>
  /\ potentialDifferentServices = << >>
  /\ startUrlChildren = << >>
  /\ queue = << >>
  /\ known = {}
  /\ handledRequestsCount = 0
  /\ running = {}
  /\ dataset = << >>
  /\ processed = 0
  /\ web = (AcmeSeed :> [candidates |-> <<[click |-> "ok", opens |-> AcmeTools]>>,
                         anchors |-> <<AcmeAdmin>>])
  /\ cls = NoCall
  /\ input = NoInput
  /\ openPages = NotFollowed

SpecScenario == InitScenario /\ [][Next]_vars

(***************************************************************************)
(* A homepage with two clickable elements: the click on the first fails,   *)
(* the click on the second opens tools.acme.com in a new page.             *)
(***************************************************************************)

InitProbe ==
  /\ companies = <<[name |-> "Acme", url |-> "https://acme.com/"]>>
  /\ ci = 1
  /\ sessionPc = "idle"
  /\ allExploredUrls = << >>
  /\ potentialDifferentServices = << >>
  /\ startUrlChildren = << >>
  /\ queue = << >>
  /\ known = {}
  /\ handledRequestsCount = 0
  /\ running = {}
  /\ dataset = << >>
  /\ processed = 0
  /\ web = ("https://acme.com/" :>
              [candidates |-> <<[click |-> "fails", opens |-> ""],
                                [click |-> "ok", opens |-> AcmeTools]>>,
               anchors |-> <<AcmeTools>>])
  /\ cls = NoCall
  /\ input = NoInput
  /\ openPages = NoneOpen

SpecProbe == InitProbe /\ [][Next]_vars

(***************************************************************************)
(* A seed below the root: the blog of Acme, whose page holds anchors to the *)
(* homepage, to /admin, to Acme's account on x.com, to acmehq.io and to a   *)
(* site of another company, and a button that opens tools.acme.com.  With  *)
(* a seed path other than "/" the same-hostname links are not all subpaths *)
(* of the seed, so the three ways of enqueuing a child are all taken.  The *)
(* pages of tools.acme.com and acmehq.io are fixed too, that of /admin is  *)
(* not.                                                                    *)
(***************************************************************************)

AcmeBlog == "https://acme.com/blog"
AcmeHome == "https://acme.com/"
AcmeOnX == "https://x.com/acme"
AcmeHq == "https://acmehq.io/"
OtherApp == "https://other.io/app-x"

InitLinks ==
  /\ companies = <<[name |-> "Acme", url |-> AcmeBlog]>>
  /\ ci = 1
  /\ sessionPc = "idle"
  /\ allExploredUrls = << >>
  /\ potentialDifferentServices = << >>
  /\ startUrlChildren = << >>
  /\ queue = << >>
  /\ known = {}
  /\ handledRequestsCount = 0
  /\ running = {}
  /\ dataset = << >>
  /\ processed = 0
  /\ web = (AcmeBlog :>
              [candidates |-> <<[click |-> "ok", opens |-> AcmeTools]>>,
               anchors |-> <<AcmeHome, AcmeAdmin, AcmeOnX, AcmeHq, OtherApp>>])
       @@ (AcmeTools :>
              [candidates |-> <<[click |-> "ok", opens |-> AcmeAdmin]>>,
               anchors |-> << >>])
       @@ (AcmeHq :>
              [candidates |-> << >>,
               anchors |-> <<AcmeHome>>])
  /\ cls = NoCall
  /\ input = NoInput
  /\ openPages = NotFollowed

SpecLinks == InitLinks /\ [][Next]_vars

FairLinks == SpecLinks /\ WF_vars(Next)

(***************************************************************************)
(* Candidates that resolve to nothing new: Acme's homepage, given with or  *)
(* without the trailing slash, holds a first element whose click fails and *)
(* a second one that opens the homepage again in a new page, and an anchor *)
(* to acmehq.io, whose page is not fixed.                                  *)
(***************************************************************************)

InitActivation ==
  /\ companies \in CompanyLists
  /\ ci = 1
  /\ sessionPc = "idle"
  /\ allExploredUrls = << >>
  /\ potentialDifferentServices = << >>
  /\ startUrlChildren = << >>
  /\ queue = << >>
  /\ known = {}
  /\ handledRequestsCount = 0
  /\ running = {}
  /\ dataset = << >>
  /\ processed = 0
  /\ web = [u \in {AcmeSeed, AcmeHome} |->
              [candidates |-> <<[click |-> "fails", opens |-> ""],
                                [click |-> "ok", opens |-> AcmeHome]>>,
               anchors |-> <<AcmeHq>>]]
  /\ cls = NoCall
  /\ input = NoInput
  /\ openPages = NoneOpen

SpecActivation == InitActivation /\ [][Next]_vars

(***************************************************************************)
(* The process from its command line: the file of companies is read, the   *)
(* active ones are crawled one after the other.  Acme's homepage holds a   *)
(* button that opens tools.acme.com, Beta's page holds nothing.            *)
(***************************************************************************)

AcmeRecord == [name |-> "Acme", website |-> "https://acme.com/", status |-> "Active"]
BetaRecord == [name |-> "Beta", website |-> "https://beta.io/", status |-> "Active"]
RetiredRecord == [name |-> "Beta", website |-> "https://beta.io/", status |-> "Inactive"]
NamelessRecord == [website |-> "https://beta.io/", status |-> "Active"]

\* process.argv[2], whether the file it names can be read and parsed, and the
\* companies array of the file
SessionInputs ==
  {[argv |-> "", file |-> "read", data |-> <<AcmeRecord>>],
   [argv |-> "companies.json", file |-> "unreadable", data |-> << >>],
   [argv |-> "companies.json", file |-> "unparsable", data |-> << >>],
   [argv |-> "companies.json", file |-> "read", data |-> <<AcmeRecord, BetaRecord>>],
   [argv |-> "companies.json", file |-> "read", data |-> <<RetiredRecord, AcmeRecord, BetaRecord>>],
   [argv |-> "companies.json", file |-> "read", data |-> <<RetiredRecord>>],
   [argv |-> "companies.json", file |-> "read", data |-> <<NamelessRecord, AcmeRecord>>]}

\* lines 606-611: the companies whose status is not 'Inactive', as name and url
RECURSIVE activeCompanies(_)
activeCompanies(data) ==
  IF data = << >> THEN << >>
  ELSE LET company == Head(data)
           mapped == IF "name" \in DOMAIN company
                     THEN [name |-> company.name, url |-> company.website]
                     ELSE [url |-> company.website]
       IN (IF company.status # "Inactive" THEN <<mapped>> ELSE << >>)
            \o activeCompanies(Tail(data))

\* lines 635-645 and 599-611: without a path the process exits with status 1;
\* an error of readFile or JSON.parse is rethrown at line 629 and caught at
\* line 642, which exits with status 1
LoadCompanies ==
  /\ sessionPc = "start"
  /\ IF input.argv = "" \/ input.file # "read"
     THEN /\ sessionPc' = "exit1"
          /\ UNCHANGED companies
     ELSE /\ companies' = activeCompanies(input.data)
          /\ sessionPc' = IF activeCompanies(input.data) = << >> THEN "finished" ELSE "idle"
  /\ UNCHANGED <<ci, registries, queue, known, handledRequestsCount, running, dataset,
                 processed, web, cls, input, openPages>>

InitSession ==
  /\ companies = << >>
  /\ ci = 1
  /\ sessionPc = "start"
  /\ allExploredUrls = << >>
  /\ potentialDifferentServices = << >>
  /\ startUrlChildren = << >>
  /\ queue = << >>
  /\ known = {}
  /\ handledRequestsCount = 0
  /\ running = {}
  /\ dataset = << >>
  /\ processed = 0
  /\ web = ("https://acme.com/" :>
              [candidates |-> <<[click |-> "ok", opens |-> AcmeTools]>>,
               anchors |-> << >>])
       @@ ("https://beta.io/" :> [candidates |-> << >>, anchors |-> << >>])
       @@ (AcmeTools :> [candidates |-> << >>, anchors |-> <<AcmeAdmin>>])
  /\ cls = NoCall
  /\ input \in SessionInputs
  /\ openPages = NotFollowed

NextSession == LoadCompanies \/ Next

SpecSession == InitSession /\ [][NextSession]_vars

(***************************************************************************)
(* Sessions that run into the request budget: several companies, and sites *)
(* large enough to fill the budget.  The handler is reduced to what the    *)
(* scheduling sees of it: the request finishes and has added some requests *)
(* for URLs the queue did not know.                                        *)
(***************************************************************************)

InitBudget ==
  /\ companies = BudgetCompanies
  /\ ci = 1
  /\ sessionPc = "idle"
  /\ allExploredUrls = << >>
  /\ potentialDifferentServices = << >>
  /\ startUrlChildren = << >>
  /\ queue = << >>
  /\ known = {}
  /\ handledRequestsCount = 0
  /\ running = {}
  /\ dataset = << >>
  /\ processed = 0
  /\ web = << >>
  /\ cls = NoCall
  /\ input = NoInput
  /\ openPages = NotFollowed

Min(a, b) == IF a < b THEN a ELSE b

\* lines 207-549 as the queue and the counters see them
HandlePage(h) ==
  /\ h.pc = "Loading"
  /\ \E k \in 0..MaxFanout :
       queue' = queue \o
         [i \in 1..Min(k, MaxPending - Len(queue)) |->
            [h.request EXCEPT !.label = "child", !.parentUrl = companies[ci].url,
                              !.retryCount = 0]]
  /\ running' = running \ {h}
  /\ handledRequestsCount' = handledRequestsCount + 1
  /\ processed' = processed + 1
  /\ UNCHANGED <<companies, ci, sessionPc, registries, known, dataset, web, cls, input, openPages>>

NextBudget ==
  \/ StartCrawl
  \/ FetchNext
  \/ \E h \in running : NavigationFails(h)
  \/ \E h \in running : HandlePage(h)
  \/ FinishCrawl

SpecBudget == InitBudget /\ [][NextBudget]_vars

\* every wait of the crawl is bounded by a timeout (5000 ms at lines 360 and
\* 364, the load-state and navigation timeouts of the library), so a step that
\* can be taken is taken
FairBudget == SpecBudget /\ WF_vars(NextBudget)

(***************************************************************************)
(* The classifier on its own: one pair of URLs, the calls the handler      *)
(* makes on it (lines 465, 511, 519-523), the registry updates that follow *)
(* (lines 513-530) and a second call on the same pair.                     *)
(***************************************************************************)

\* the URL strings the classifier is called on
ClassifierUrls ==
  {"https://acme.com", "https://acme.com/", "https://acme.com/blog",
   "https://acme.com/admin-portal", "https://acme.com/blog/announcing-app-support",
   "https://acme.com/application", "https://acme.com/blog/Admin",
   "HTTPS://Tools.Acme.com/Docs", "https://other.io/app-x", "https://other.io/apply",
   "https://x.com/acme", "https://notx.com/", "https://www.twitter.com/acme",
   "mailto:info@acme.com", "tel:+15550100", "MAILTO:info@acme.com",
   "not a url", ""}

InitClassify ==
  /\ companies = << >>
  /\ ci = 1
  /\ sessionPc = "idle"
  /\ allExploredUrls = << >>
  /\ potentialDifferentServices = << >>
  /\ startUrlChildren = << >>
  /\ queue = << >>
  /\ known = {}
  /\ handledRequestsCount = 0
  /\ running = {}
  /\ dataset = << >>
  /\ processed = 0
  /\ web = << >>
  /\ cls \in {[pc |-> "called", originalUrl |-> o, targetUrl |-> t] :
               o \in ClassifierUrls, t \in ClassifierUrls}
  /\ input = NoInput
  /\ openPages = NotFollowed

isDifferentServiceUnlessExplored(url, targetUrl) ==
  /\ isPotentialDifferentService(url, targetUrl)
  /\ url \in DOMAIN allExploredUrls => targetUrl \notin Range(allExploredUrls[url])

\* line 519
isDifferentService(url, targetUrl) == isPotentialDifferentService(url, targetUrl)

\* the classifier functions are called on the pair and return
Classify ==
  /\ cls.pc = "called"
  /\ cls' = [pc |-> "returned",
             originalUrl |-> cls.originalUrl,
             targetUrl |-> cls.targetUrl,
             domain |-> extractDomain(cls.targetUrl),
             excluded |-> shouldExcludeUrl(cls.targetUrl),
             hasToolIndicator |-> IF CanParse(cls.targetUrl)
                                  THEN hasToolIndicator(toLowerCase(pathname(cls.targetUrl)))
                                  ELSE FALSE,
             sameCompany |-> isSameCompany(extractDomain(cls.originalUrl), cls.targetUrl),
             isDifferentService |-> isDifferentService(cls.originalUrl, cls.targetUrl),
             again |-> isDifferentService(cls.originalUrl, cls.targetUrl),
             excludedAgain |-> shouldExcludeUrl(cls.targetUrl)]
  /\ UNCHANGED <<companies, ci, sessionPc, registries, queue, known, handledRequestsCount,
                 running, dataset, processed, web, input, openPages>>

\* lines 513-530: the registries are updated with the link
RegistriesUpdated ==
  /\ cls.pc = "returned"
  /\ cls' = [cls EXCEPT !.pc = "recorded"]
  /\ allExploredUrls' = (cls.originalUrl :> <<cls.targetUrl>>)
  /\ potentialDifferentServices' =
       (cls.originalUrl :> IF cls.isDifferentService THEN <<cls.targetUrl>> ELSE << >>)
  /\ UNCHANGED <<companies, ci, sessionPc, startUrlChildren, queue, known,
                 handledRequestsCount, running, dataset, processed, web, input, openPages>>

\* the same link is met again and classified again
ClassifyAgain ==
  /\ cls.pc \in {"returned", "recorded"}
  /\ cls' = [cls EXCEPT !.pc = "again",
                        !.again = isDifferentService(cls.originalUrl, cls.targetUrl),
                        !.excludedAgain = shouldExcludeUrl(cls.targetUrl)]
  /\ UNCHANGED <<companies, ci, sessionPc, registries, queue, known, handledRequestsCount,
                 running, dataset, processed, web, input, openPages>>

NextClassify ==
  \/ Classify
  \/ RegistriesUpdated
  \/ ClassifyAgain

SpecClassify == InitClassify /\ [][NextClassify]_vars

(***************************************************************************)
(* Properties                                                              *)
(***************************************************************************)

\* the records of the dataset that hold the results of a company
ResultRecords ==
  {dataset[i].results[1] : i \in {j \in 1..Len(dataset) : "results" \in DOMAIN dataset[j]}}

\* the startUrlChildren records of the dataset
ChildrenRecords ==
  {dataset[i].startUrlChildren :
     i \in {j \in 1..Len(dataset) : "startUrlChildren" \in DOMAIN dataset[j]}}

\* the scenario ran to its end: the homepage was loaded and the page its button
\* opened was read
ScenarioPlayed ==
  /\ sessionPc = "finished"
  /\ AcmeSeed \in DOMAIN allExploredUrls
  /\ AcmeTools \in Range(allExploredUrls[AcmeSeed])

\* C1: in the end-to-end scenario (seed https://acme.com, an anchor to
\* https://acme.com/admin, a button opening https://tools.acme.com/), when the
\* run has finished the seed's potentialDifferentServices and allExploredUrls
\* and startUrlChildren[seed] all contain both URLs.
C1_ScenarioOutput ==
  ScenarioPlayed =>
    /\ \A r \in ResultRecords :
         /\ {AcmeAdmin, AcmeTools} \subseteq Range(r.potentialDifferentServices)
         /\ {AcmeAdmin, AcmeTools} \subseteq Range(r.allExploredUrls)
    /\ \A c \in ChildrenRecords : {AcmeAdmin, AcmeTools} \subseteq Range(c[AcmeSeed])

C3_DiscoveredSubsetOfExplored ==
  \A k \in DOMAIN potentialDifferentServices :
    \A u \in Range(potentialDifferentServices[k]) :
      k \in DOMAIN allExploredUrls /\ u \in Range(allExploredUrls[k])

\* C3 witness: a seed with a discovered service
C3_Witness ==
  \E k \in DOMAIN potentialDifferentServices : Len(potentialDifferentServices[k]) >= 2

NoDuplicates(list) == \A i, j \in 1..Len(list) : list[i] = list[j] => i = j

\* C4: every list of the three registries is free of duplicates.
C4_NoDuplicates ==
  /\ \A k \in DOMAIN allExploredUrls : NoDuplicates(allExploredUrls[k])
  /\ \A k \in DOMAIN potentialDifferentServices : NoDuplicates(potentialDifferentServices[k])
  /\ \A k \in DOMAIN startUrlChildren : NoDuplicates(startUrlChildren[k])

\* C4 witness: the handler of a child is run again after a run that recorded a
\* URL, the child being registered under its parent already
C4_Witness ==
  \E h \in running :
    /\ h.request.label = "child" /\ h.request.retryCount > 0 /\ h.pc = "Enqueuing"
    /\ h.request.url \in Range(startUrlChildren[h.request.parentUrl])
    /\ allExploredUrls[h.request.url] # << >>

\* a child-labelled request is in one of the phases after its page has loaded
ChildIn(pcs) == \E h \in running : h.request.label = "child" /\ h.pc \in pcs

\* C5: a step of the probing, link-extraction or enqueuing phase of a
\* child-labelled request leaves every startUrlChildren list as it was.
C5_ChildLeavesChildRegistry ==
  [][ChildIn({"Probing", "ExtractingLinks", "Enqueuing"})
       => startUrlChildren' = startUrlChildren]_vars

\* C5 witness: the extraction phase of a child has recorded a cross-hostname
\* link as explored and the request has left the handler
C5_Witness ==
  \E i \in 1..Len(queue) :
    /\ queue[i].label = "child" /\ queue[i].retryCount > 0
    /\ queue[i].url \in DOMAIN allExploredUrls
    /\ allExploredUrls[queue[i].url] # << >>

\* C6: a probing step or the static-link step of a child-labelled request adds
\* no request to the frontier and records nothing but explored URLs.
C6_ChildNeverEnqueues ==
  [][ChildIn({"Probing", "Enqueuing"})
       => /\ queue' = queue /\ known' = known
          /\ potentialDifferentServices' = potentialDifferentServices
          /\ startUrlChildren' = startUrlChildren]_vars

\* C6 witness: probing a child page resolved a URL, recorded as explored
C6_Witness ==
  \E h \in running :
    /\ h.request.label = "child" /\ h.idx > 1
    /\ h.resolved \in Range(allExploredUrls[h.request.url])

\* a child request of parent for url (or for a URL of the same unique key) waits
Enqueued(url, parent) ==
  \E i \in 1..Len(queue) :
    /\ uniqueKey(queue[i].url) = uniqueKey(url)
    /\ queue[i].label = "child" /\ queue[i].parentUrl = parent

\* C7 as claimed: for a seed-labelled request every URL resolved by probing (a
\* new page's URL or the page's changed URL) that differs from the request URL
\* is in potentialDifferentServices[seed] and is enqueued as a child of the seed.
C7_ResolvedEnqueued ==
  \A h \in running :
    (h.request.label = "start" /\ h.resolved # "" /\ h.resolved # h.request.url) =>
      /\ h.resolved \in Range(potentialDifferentServices[h.request.url])
      /\ Enqueued(h.resolved, h.request.url)

\* the state part of C7 amended
C7_Recorded ==
  \A h \in running :
    (h.request.label = "start" /\ h.resolved # "" /\ h.resolved # h.request.url) =>
      /\ h.resolved \in Range(allExploredUrls[h.request.url])
      /\ h.resolved \in Range(potentialDifferentServices[h.request.url])
      /\ h.newPage # "" =>
           /\ h.newPage \in Range(startUrlChildren[h.request.url])
           /\ uniqueKey(h.newPage) \in known
           /\ uniqueKey(h.newPage) # uniqueKey(h.request.url)
                => Enqueued(h.newPage, h.request.url)

\* a probing step that found no new page
ProbedWithoutNewPage ==
  /\ \E h \in running : h.pc = "Probing"
  /\ \A h \in running' : h.newPage = ""

\* C7 amended: for a seed-labelled request every URL resolved by probing that
\* differs from the request URL is recorded as explored and as a discovered
\* service; the URL of a new page is also registered in startUrlChildren[seed]
\* and handed to the queue as a child of the seed (the queue keeps it unless a
\* request of the same unique key is known); the page's changed URL after an
\* in-place navigation is not enqueued.
C7_NewPageEnqueuedNavigationRecorded ==
  /\ []C7_Recorded
  /\ [][ProbedWithoutNewPage =>
          queue' = queue /\ known' = known /\ startUrlChildren' = startUrlChildren]_vars

\* C7 witness: an in-place navigation of a seed page was recorded as a discovered
\* service and no request for it was enqueued
C7_Witness ==
  \E h \in running :
    /\ h.request.label = "start" /\ h.resolved # "" /\ h.newPage = ""
    /\ h.resolved # h.pageUrl \/ h.resolved # BrowserUrl(h.request.url)
    /\ h.resolved \in Range(potentialDifferentServices[h.request.url])
    /\ uniqueKey(h.resolved) \notin known

\* C8: whenever activating a candidate opens a new page, the prober gets that
\* page from its wait, whether the page was opened before or after click()
\* returned.
C8_NewPageAlwaysDetected ==
  \A h \in running : h.opened # "" => h.newPage = h.opened

C10_SingleWorker == Cardinality(running) <= 1

\* C10 witness: a request waits in the queue while a handler is running
C10_Witness == Cardinality(running) = 1 /\ queue # << >>

\* the classifier calls on the pair have returned
Returned == cls.pc \in {"returned", "recorded", "again"}

\* whether indicator occurs in segment as the whole segment or between hyphens
\* or segment ends
HyphenBounded(segment, indicator) ==
  Includes("-" \o segment \o "-", "-" \o indicator \o "-")

\* whether some segment of the lower-cased path of url is hyphen-bounded around
\* an indicator
IndicatorInPath(url) ==
  \E segment \in Range(PathSegments(toLowerCase(pathname(url)))) :
    \E indicator \in Range(INTERNAL_TOOL_INDICATORS) : HyphenBounded(segment, indicator)

\* the candidate's path is the origin's path with something appended
StrictExtension(originalUrl, targetUrl) ==
  LET o == toLowerCase(pathname(originalUrl))
      t == toLowerCase(pathname(targetUrl))
  IN Len(t) > Len(o) /\ SubSeq(t, 1, Len(o)) = o

\* the hostname of url is an entry of EXCLUDED_DOMAINS or a name below one
OnExcludedDomain(url) ==
  /\ CanParse(url)
  /\ \E e \in Range(EXCLUDED_DOMAINS) :
       LET h == hostname(url)
       IN h = e \/ (Len(h) > Len(e) /\ SubSeq(h, Len(h) - Len(e), Len(h)) = "." \o e)

\* the request is rooted at the company the session is at
RootedAtCurrent(req) ==
  ci <= Len(companies) /\ req.originalDomain = memoDomain[companies[ci].url]

\* C11: crawls of different companies never interleave: every running request is
\* rooted at the company the session is at, the records of all earlier
\* companies are written by then, and a request of an earlier company still
\* waiting during a later crawl is one the budget keeps from starting.
C11_CrawlsNeverInterleave ==
  /\ \A h \in running : RootedAtCurrent(h.request)
  /\ sessionPc = "crawling" => Len(dataset) = 2 * (ci - 1)
  /\ \A i \in 1..Len(queue) :
       (sessionPc = "crawling" /\ ~RootedAtCurrent(queue[i]))
         => handledRequestsCount >= MAX_REQUESTS_PER_CRAWL

\* C11 witness: a child request of the second company is being processed
C11_Witness ==
  /\ ci = 2
  /\ \E h \in running : h.request.label = "child" /\ RootedAtCurrent(h.request)

\* C12: for parsable origin and candidate, isPotentialDifferentService returns
\* true exactly when the candidate is not excluded and either the hostnames
\* differ, or the candidate path holds an indicator segment and is not a strict
\* textual extension of the origin path.
C12_ClassifyProcedure ==
  (Returned /\ CanParse(cls.originalUrl) /\ CanParse(cls.targetUrl)) =>
    cls.isDifferentService =
      (/\ ~(StartsWith(cls.targetUrl, "mailto:") \/ StartsWith(cls.targetUrl, "tel:"))
       /\ ~OnExcludedDomain(cls.targetUrl)
       /\ \/ hostname(cls.originalUrl) # hostname(cls.targetUrl)
          \/ /\ IndicatorInPath(cls.targetUrl)
             /\ ~StrictExtension(cls.originalUrl, cls.targetUrl))

\* C12 witness: same hostname, an indicator segment, no extension of the origin path
C12_Witness ==
  /\ Returned
  /\ cls.originalUrl = "https://acme.com/blog"
  /\ cls.targetUrl = "https://acme.com/admin-portal"
  /\ cls.isDifferentService

\* C13: for the origin https://acme.com/ and the candidate
\* https://acme.com/admin-portal isPotentialDifferentService returns true.
C13_RootOriginIndicator ==
  (/\ Returned
   /\ cls.originalUrl = "https://acme.com/"
   /\ cls.targetUrl = "https://acme.com/admin-portal") => cls.isDifferentService

\* C14: for the origin https://acme.com/blog and the candidate
\* https://acme.com/blog/announcing-app-support isPotentialDifferentService
\* returns false, and the indicator test finds no match in the candidate path.
C14_BlogPostNoIndicator ==
  (/\ Returned
   /\ cls.originalUrl = "https://acme.com/blog"
   /\ cls.targetUrl = "https://acme.com/blog/announcing-app-support")
     => (~cls.isDifferentService /\ ~cls.hasToolIndicator)

C16_ExcludeRule ==
  Returned =>
    cls.excluded =
      (\/ StartsWith(cls.targetUrl, "mailto:")
       \/ StartsWith(cls.targetUrl, "tel:")
       \/ OnExcludedDomain(cls.targetUrl))

\* C16 witness: a hostname with an excluded entry as a suffix without a dot before it
C16_Witness ==
  Returned /\ cls.targetUrl = "https://notx.com/" /\ ~cls.excluded

\* C17: extractDomain returns the lower-case hostname of the URL, or the empty
\* string when the URL does not parse, and the functions that call it return
\* a boolean then too.
C17_ExtractDomainTotal ==
  Returned =>
    /\ cls.domain = (IF CanParse(cls.targetUrl) THEN hostname(cls.targetUrl) ELSE "")
    /\ cls.domain = toLowerCase(cls.domain)
    /\ ~CanParse(cls.targetUrl) =>
         /\ cls.excluded = FALSE
         /\ cls.sameCompany \in BOOLEAN
         /\ cls.isDifferentService = FALSE

\* C17 witness: the functions have returned on a string that is no URL
C17_Witness ==
  Returned /\ cls.targetUrl = "not a url" /\ cls.domain = ""

C19_NoErrorEscapes ==
  [][\A h \in running :
       /\ h.pc \in {"Probing", "ExtractingLinks"}
            => \E h2 \in running' : h2.request = h.request
       /\ h.pc = "Enqueuing"
            => /\ handledRequestsCount' = handledRequestsCount + 1
               /\ \A i \in 1..Len(queue') : queue'[i].url = h.request.url
                                                => queue'[i].retryCount = 0]_vars

\* a probing step takes the next candidate and the handler goes on
ProbingAdvances ==
  \A h \in running :
    h.pc = "Probing" =>
      \E h2 \in running' :
        /\ h2.request = h.request /\ h2.ncand = h.ncand /\ h2.idx = h.idx + 1
        /\ h2.pc = IF h.idx = h.ncand THEN "ExtractingLinks" ELSE "Probing"

\* the candidates before idx have been attempted, and all of them once the
\* handler is past probing
ProbedInOrder ==
  \A h \in running :
    /\ h.pc = "Probing" => (1 <= h.idx /\ h.idx <= h.ncand)
    /\ h.pc \in {"ExtractingLinks", "Enqueuing"} => h.idx = h.ncand + 1

\* C20: the candidates of a page are attempted one after the other in
\* enumeration order, whatever the outcome of each attempt (a failed click
\* included), and link extraction follows the last one.
C20_CandidateFailureIsolated ==
  /\ []ProbedInOrder
  /\ [][ProbingAdvances]_vars

\* C20 witness: the handler of the homepage is extracting links after the click
\* on its first candidate failed and its second candidate opened a page
C20_Witness ==
  \E h \in running :
    /\ h.request.url \in DOMAIN web
    /\ web[h.request.url].candidates[1].click = "fails"
    /\ h.pc = "ExtractingLinks" /\ h.idx = 3
    /\ AcmeTools \in Range(allExploredUrls[h.request.url])

(***************************************************************************)
(* Pages opened by probing, the registries at the end of a crawl           *)
(***************************************************************************)

\* C21: when no request is being handled, no page that a click of the probing
\* opened is still open
C21_ContextsClosed ==
  (openPages.followed /\ running = {}) => openPages.pages = {}

\* a request has finished and a page its probing opened is open
C21_LeftOpenAfterRequest ==
  openPages.followed /\ running = {} /\ processed > 0 /\ AcmeTools \in openPages.pages

\* C22: when the run has finished, every URL recorded as explored while any
\* request of the crawl was processed, the seed's or a child's, is in the
\* allExploredUrls of the seed's output record
C22_SeedRecordHoldsAllExplored ==
  sessionPc = "finished" =>
    \A k \in DOMAIN allExploredUrls : \A u \in Range(allExploredUrls[k]) :
      \E r \in ResultRecords : u \in Range(r.allExploredUrls)

\* a URL observed on a child page is recorded under the child's URL and is in
\* no output record
C22_ChildObservationLost ==
  /\ sessionPc = "finished"
  /\ \E k \in DOMAIN allExploredUrls : \E u \in Range(allExploredUrls[k]) :
       /\ k # companies[1].url
       /\ uniqueKey(u) # uniqueKey(companies[1].url)
       /\ \A r \in ResultRecords : u \notin Range(r.allExploredUrls)

\* the unique keys of the requests added to the queue as children of the seed:
\* every request but the seed's own is added with parentUrl = the seed's URL
EnqueuedChildKeys == known \ {uniqueKey(companies[1].url)}

\* C23: when the run has finished, startUrlChildren[seed] holds exactly the URLs
\* enqueued as children of the seed: each enqueued child is in it, processed or
\* not, and each URL in it was enqueued
C23_ChildrenRegistryExact ==
  sessionPc = "finished" =>
    LET children == Range(startUrlChildren[companies[1].url])
    IN /\ \A k \in EnqueuedChildKeys : \E u \in children : uniqueKey(u) = k
       /\ \A u \in children : uniqueKey(u) \in EnqueuedChildKeys

\* /admin was enqueued from the blog's anchors and the run ended without it in
\* startUrlChildren
C23_EnqueuedChildMissing ==
  /\ sessionPc = "finished"
  /\ uniqueKey(AcmeAdmin) \in known
  /\ AcmeAdmin \in Range(potentialDifferentServices[AcmeBlog])
  /\ AcmeAdmin \notin Range(startUrlChildren[AcmeBlog])

(***************************************************************************)
(* What is enqueued, and with which user data                              *)
(***************************************************************************)

\* the step in which the handler h of a start request returns from enqueueLinks
SeedEnqueueStep(h) ==
  h.pc = "Enqueuing" /\ h.request.label = "start" /\ h \notin running'

QueuedUrls(q) == {q[i].url : i \in 1..Len(q)}

\* C24: when the handler of a seed request enqueues the page's links, an anchor
\* on the seed's hostname is made a child request (recorded in
\* potentialDifferentServices[seed] and handed to the queue, which keeps it
\* unless it knows its key) if and only if it is not excluded, is not the seed
\* URL and isPotentialDifferentService holds for it; any other such anchor is
\* neither added to potentialDifferentServices[seed] nor to the queue
C24_StaticEnqueue ==
  [][\A h \in running : SeedEnqueueStep(h) =>
       LET url == h.request.url
       IN \A a \in {x \in Range(h.anchors) : hostname(x) = hostname(h.loadedUrl)} :
            IF ~shouldExcludeUrl(a) /\ a # url /\ isPotentialDifferentService(url, a)
            THEN /\ a \in Range(potentialDifferentServices'[url])
                 /\ uniqueKey(a) \in known'
                 /\ uniqueKey(a) \notin known =>
                      \E i \in 1..Len(queue') :
                        /\ queue'[i].url = a
                        /\ queue'[i].label = "child"
                        /\ queue'[i].parentUrl = url
            ELSE /\ a \in Range(potentialDifferentServices'[url]) =>
                      a \in Range(potentialDifferentServices[url])
                 /\ a \in QueuedUrls(queue') => a \in QueuedUrls(queue)]_vars

\* the blog's handler has returned: /admin waits in the queue as a child and is
\* in potentialDifferentServices, the homepage is explored and is in neither
C24_Witness ==
  /\ AcmeBlog \in DOMAIN allExploredUrls
  /\ processed >= 1
  /\ \E i \in 1..Len(queue) : queue[i].url = AcmeAdmin /\ queue[i].parentUrl = AcmeBlog
  /\ AcmeAdmin \in Range(potentialDifferentServices[AcmeBlog])
  /\ AcmeHome \in Range(allExploredUrls[AcmeBlog])
  /\ AcmeHome \notin Range(potentialDifferentServices[AcmeBlog])
  /\ AcmeHome \notin QueuedUrls(queue)

\* the step in which the handler h of a page of web leaves the extraction of
\* the cross-domain links
ExtractStep(h) ==
  h.pc = "ExtractingLinks" /\ h.request.url \in DOMAIN web /\ h \notin running'

\* lines 451-460: the hrefs of the page of h that are absolute and do not
\* contain the hostname of the document
CrossHostAnchors(h) ==
  {a \in Range(web[h.request.url].anchors) :
     Includes(a, "://") /\ ~Includes(a, hostname(h.pageUrl))}

ContainsName(a, h) == Includes(toLowerCase(a), h.request.companyName)

In(u, registry, k) == k \in DOMAIN registry /\ u \in Range(registry[k])

\* the memberships of the URL a, under the key k, that a step leaves as they were
Untouched(a, k) ==
  /\ In(a, allExploredUrls', k) = In(a, allExploredUrls, k)
  /\ In(a, potentialDifferentServices', k) = In(a, potentialDifferentServices, k)
  /\ In(a, startUrlChildren', k) = In(a, startUrlChildren, k)
  /\ a \in QueuedUrls(queue') => a \in QueuedUrls(queue)

C25_ChildAccepted ==
  /\ AcmeHq \in DOMAIN allExploredUrls
  /\ AcmeHome \in Range(allExploredUrls[AcmeHq])

\* C26: on the page of every request, child as well as start, a cross-hostname
\* anchor that is not excluded and contains the company name is handed to the
\* queue as a child request; links of the page's own hostname are enqueued by
\* start requests only
C26_EnqueuedFromEveryRequest ==
  [][/\ \A h \in running : ExtractStep(h) =>
          \A a \in CrossHostAnchors(h) :
            (ContainsName(a, h) /\ ~shouldExcludeUrl(a)) => uniqueKey(a) \in known'
     /\ \A h \in running :
          (h.pc = "Enqueuing" /\ h.request.label = "child" /\ h \notin running') =>
            queue' = queue /\ known' = known]_vars

\* the handler of the child page of acmehq.io has met the anchor to Acme's
\* homepage, recorded it and failed: the homepage was not handed to the queue
C26_ChildLinkNotEnqueued ==
  /\ AcmeHq \in DOMAIN allExploredUrls
  /\ AcmeHome \in Range(allExploredUrls[AcmeHq])
  /\ uniqueKey(AcmeHome) \notin known

\* C27: a request added to the queue is either the request of the running
\* handler put back for a retry, or a child of it that carries the handler's
\* originalDomain and companyName, which are those derived from the company
\* record and not from the child's own URL; this holds for the three ways of
\* enqueuing (new page, cross-hostname link, link of the same hostname)
C27_UserDataInherited ==
  [][\A i \in 1..Len(queue') :
       LET r == queue'[i]
       IN (sessionPc = "crawling" /\ r \notin Range(queue)) =>
            \E h \in running :
              \/ r = [h.request EXCEPT !.retryCount = @ + 1]
              \/ /\ r.label = "child"
                 /\ r.retryCount = 0
                 /\ r.parentUrl = h.request.url
                 /\ r.originalDomain = h.request.originalDomain
                 /\ r.companyName = h.request.companyName
                 /\ r.originalDomain = extractDomain(companies[ci].url)
                 /\ r.companyName = toLowerCase(companies[ci].name)]_vars

\* the blog's handler has returned and its three children wait in the queue,
\* one of each way of enqueuing: tools.acme.com and acmehq.io, whose own
\* hostnames are not acme.com, and /admin
C27_Witness ==
  /\ running = {}
  /\ processed = 1
  /\ {AcmeTools, AcmeHq, AcmeAdmin} \subseteq QueuedUrls(queue)
  /\ \A i \in 1..Len(queue) :
       /\ queue[i].originalDomain = "acme.com"
       /\ queue[i].companyName = "acme"
       /\ queue[i].parentUrl = AcmeBlog
  /\ AcmeAdmin \notin Range(startUrlChildren[AcmeBlog])

(***************************************************************************)
(* The session: one crawl per company, failed loads, the exit status       *)
(***************************************************************************)

\* the step in which findCompanyServices is entered for the company ci
CrawlBegins == sessionPc = "idle" /\ sessionPc' # "idle"

\* the step in which findCompanyServices pushes its records and returns
CrawlReturns == sessionPc = "crawling" /\ sessionPc' # "crawling"

\* C28: when findCompanyServices begins the registries hold no URL: no explored
\* list, and an empty list under the company's URL and under no other key; so
\* the startUrlChildren record a call pushes has the call's company as its only
\* key, and the records of Beta, whose page holds nothing, are empty after
\* Acme's crawl has filled the registries
C28_RegistriesStartEmpty ==
  [][/\ CrawlBegins =>
          /\ allExploredUrls' = << >>
          /\ potentialDifferentServices' = (companies[ci].url :> << >>)
          /\ startUrlChildren' = (companies[ci].url :> << >>)
     /\ CrawlReturns =>
          LET n == Len(dataset')
          IN /\ DOMAIN dataset'[n].startUrlChildren = {companies[ci].url}
             /\ dataset'[n - 1].results[1].url = companies[ci].url
             /\ companies[ci].name = "Beta" =>
                  /\ dataset'[n].startUrlChildren[companies[ci].url] = << >>
                  /\ dataset'[n - 1].results[1].allExploredUrls = << >>
                  /\ dataset'[n - 1].results[1].potentialDifferentServices = << >>]_vars

\* both companies were crawled: Acme's record holds tools.acme.com, and Beta's,
\* pushed after it, holds nothing
C28_Witness ==
  /\ sessionPc = "finished"
  /\ Len(dataset) = 4
  /\ dataset[1].results[1].url = "https://acme.com/"
  /\ AcmeTools \in Range(dataset[1].results[1].allExploredUrls)
  /\ AcmeTools \in Range(dataset[2].startUrlChildren["https://acme.com/"])
  /\ dataset[3].results[1].url = "https://beta.io/"
  /\ dataset[3].results[1].allExploredUrls = << >>
  /\ dataset[4].startUrlChildren = ("https://beta.io/" :> << >>)

\* no path on the command line, or a file that cannot be read or parsed
InputMissing == input.argv = "" \/ input.file \in {"unreadable", "unparsable"}

\* C30: the process exits with status 1 if and only if the input is missing,
\* unreadable or unparsable; with any readable input, a company record
\* without name included, it does not, and every active company is crawled
C30_ExitOnlyOnMissingInput ==
  /\ sessionPc = "exit1" => InputMissing
  /\ (InputMissing /\ sessionPc # "start") => sessionPc = "exit1"
  /\ sessionPc = "finished" => Len(dataset) = 2 * Len(companies)

\* the file was read, its first active record has no name: the process has
\* exited with status 1 and Acme, the record after it, was not crawled
C30_ExitOnNamelessCompany ==
  /\ sessionPc = "exit1"
  /\ input.file = "read" /\ input.argv # ""
  /\ Len(companies) = 2
  /\ "name" \notin DOMAIN companies[1]
  /\ dataset = << >>
  /\ processed = 0

\* the step in which the load of the request of h fails: h was loading and no
\* handler runs after the step
LoadFails(h) == h.pc = "Loading" /\ running' = {}

QueuedKeys(q) == {uniqueKey(q[i].url) : i \in 1..Len(q)}

\* C29: a failed load changes no registry and makes no key known; while
\* retries are left the request goes back to the tail of the queue, and after
\* the last one it is counted as handled and dropped, the requests that wait
\* staying as they are; its key stays known, no request of a known key is
\* ever added, so it is not processed again; and the crawl returns only when
\* no request waits or the budget is used up
C29_FailedLoadAbandoned ==
  [][/\ \A h \in running : LoadFails(h) =>
          /\ UNCHANGED <<allExploredUrls, potentialDifferentServices, startUrlChildren, known>>
          /\ h.request.retryCount <= maxRequestRetries
          /\ IF h.request.retryCount < maxRequestRetries
             THEN /\ queue' = Append(queue, [h.request EXCEPT !.retryCount = @ + 1])
                  /\ handledRequestsCount' = handledRequestsCount
             ELSE /\ queue' = queue
                  /\ uniqueKey(h.request.url) \notin QueuedKeys(queue')
                  /\ uniqueKey(h.request.url) \in known'
                  /\ handledRequestsCount' = handledRequestsCount + 1
     /\ sessionPc = "crawling" =>
          /\ known \subseteq known'
          /\ \A k \in QueuedKeys(queue') \ QueuedKeys(queue) :
               k \notin known \/ \E h \in running : k = uniqueKey(h.request.url)
     /\ CrawlReturns =>
          queue = << >> \/ handledRequestsCount >= MAX_REQUESTS_PER_CRAWL]_vars

\* a request was abandoned after its last retry (its key is known, it neither
\* waits nor runs, and its handler never began) while another request waits
C29_Witness ==
  /\ sessionPc = "crawling"
  /\ running = {}
  /\ queue # << >>
  /\ \E u \in Range(WebUrls) :
       /\ uniqueKey(u) \in known
       /\ uniqueKey(u) \notin QueuedKeys(queue)
       /\ \A v \in DOMAIN allExploredUrls : uniqueKey(v) # uniqueKey(u)

(***************************************************************************)
(* Termination                                                             *)
(***************************************************************************)

\* C31: every crawl terminates: each request is handled, abandoned after its
\* retries or left waiting when the budget is used up; the session then stays
\* finished with no request running, and each crawl has pushed its results
\* record and its startUrlChildren record
C31_CrawlTerminates ==
  <>[](/\ sessionPc = "finished"
       /\ running = {}
       /\ Len(dataset) = 2 * Len(companies)
       /\ \A i \in 1..Len(companies) :
            /\ dataset[2 * i - 1].results[1].url = companies[i].url
            /\ DOMAIN dataset[2 * i].startUrlChildren = {companies[i].url})

\* the session has ended with both crawls flushed, the last one stopped by the
\* budget with requests still waiting
C31_Witness ==
  /\ sessionPc = "finished"
  /\ running = {}
  /\ Len(dataset) = 4
  /\ queue # << >>
  /\ handledRequestsCount >= MAX_REQUESTS_PER_CRAWL

(***************************************************************************)
(* Probing: self-navigation, failed clicks                                 *)
(***************************************************************************)

\* the handler of the request of h after the step that probes one candidate
Probed(h, g) ==
  h.pc = "Probing" /\ g.request = h.request /\ g.idx = h.idx + 1

\* C32: when the URL a candidate resolves to (the URL of the new page, or the
\* page's URL after the wait) equals the URL of the request, the step changes
\* no registry and hands nothing to the queue, and when it was the URL of a
\* new page that page is closed
C32_SelfNavigationDiscarded ==
  [][\A h \in running : \A g \in running' :
       (Probed(h, g) /\ g.resolved = h.request.url) =>
         /\ UNCHANGED <<allExploredUrls, potentialDifferentServices, startUrlChildren,
                        queue, known>>
         /\ g.newPage = h.request.url => openPages' = openPages]_vars

\* both candidates of the homepage, requested as https://acme.com/, resolved to
\* the request URL, the second one as the URL of a new page: nothing was
\* recorded and no page is open
C32_Witness ==
  \E g \in running :
    /\ g.request.url = AcmeHome
    /\ g.idx = 3
    /\ g.newPage = AcmeHome
    /\ g.resolved = AcmeHome
    /\ allExploredUrls[AcmeHome] = << >>
    /\ potentialDifferentServices[AcmeHome] = << >>
    /\ Len(queue) = 0
    /\ openPages.pages = {}

\* the candidate h is about to probe is one whose click fails
ClickFails(h) ==
  /\ h.pc = "Probing"
  /\ h.request.url \in DOMAIN web
  /\ web[h.request.url].candidates[h.idx].click = "fails"

\* C33: probing a candidate whose click fails adds no URL to a registry and
\* hands no request to the queue
C33_FailedClickSkipped ==
  [][\A h \in running : \A g \in running' :
       (ClickFails(h) /\ Probed(h, g)) =>
         UNCHANGED <<allExploredUrls, potentialDifferentServices, startUrlChildren,
                     queue, known>>]_vars

\* the click on the first element of the homepage, requested as
\* https://acme.com, failed, and the page's own URL was recorded as explored
\* and as a potential different service
C33_FailedClickRecorded ==
  \E g \in running :
    /\ g.request.url = AcmeSeed
    /\ g.idx = 2
    /\ AcmeHome \in Range(allExploredUrls[AcmeSeed])
    /\ AcmeHome \in Range(potentialDifferentServices[AcmeSeed])

(***************************************************************************)
(* Link extraction                                                         *)
(***************************************************************************)

\* C34: the anchors of a page are partitioned by hostname: an absolute anchor
\* whose hostname is not the page's gets the brand-token check, so that one
\* that is not excluded and contains the company name is recorded and handed
\* to the queue, an anchor on a subdomain included; and enqueueLinks touches
\* only anchors of the page's hostname
C34_PartitionByHostname ==
  [][\A h \in running :
       /\ (ExtractStep(h) /\ h.request.label = "start") =>
            \A a \in Range(web[h.request.url].anchors) :
              (/\ Includes(a, "://")
               /\ hostname(a) # hostname(h.pageUrl)
               /\ ContainsName(a, h)
               /\ ~shouldExcludeUrl(a)) =>
                 /\ In(a, allExploredUrls', h.request.url)
                 /\ In(a, potentialDifferentServices', h.request.url)
                 /\ uniqueKey(a) \in known'
       /\ SeedEnqueueStep(h) =>
            \A a \in Range(h.anchors) :
              hostname(a) # hostname(h.loadedUrl) => Untouched(a, h.request.url)]_vars

\* the homepage's handler has returned: its anchor to tools.acme.com, a
\* hostname other than the page's, was recorded nowhere and not enqueued
C34_SubdomainAnchorDropped ==
  /\ processed = 1
  /\ running = {}
  /\ AcmeTools \in Range(web[AcmeHome].anchors)
  /\ AcmeHome \in DOMAIN allExploredUrls
  /\ AcmeTools \notin Range(allExploredUrls[AcmeHome])
  /\ uniqueKey(AcmeTools) \notin known

RootSeedStaticLinksInert ==
  [][\A h \in running :
       (SeedEnqueueStep(h) /\ pathname(h.request.url) = "/") =>
         UNCHANGED <<potentialDifferentServices, queue, known>>]_vars

(***************************************************************************)
(* The shape of the crawl and of the registries                            *)
(***************************************************************************)

\* the requests that wait or run
Frontier == Range(queue) \cup {h.request : h \in running}

SeedUrls == {companies[i].url : i \in 1..Len(companies)}

\* C36: every child request that waits or runs has a seed URL as its parentUrl,
\* and a start request is a seed's: no request has a child's URL as parent
C36_DepthOne ==
  \A r \in Frontier :
    /\ r.label = "child" => r.parentUrl \in SeedUrls
    /\ r.label = "start" => (r.url \in SeedUrls /\ r.parentUrl = "")

\* a child page was handled and URLs were observed on it, a child of the seed
\* waits, and the requests known to the queue are the seed and its children
C36_Witness ==
  /\ \E k \in DOMAIN allExploredUrls : k \notin SeedUrls /\ allExploredUrls[k] # << >>
  /\ \E i \in 1..Len(queue) : queue[i].label = "child" /\ queue[i].parentUrl \in SeedUrls

\* C37: every URL in startUrlChildren[seed] is in potentialDifferentServices[seed]
C37_ChildrenAreDiscovered ==
  \A k \in DOMAIN startUrlChildren :
    /\ k \in DOMAIN potentialDifferentServices
    /\ Range(startUrlChildren[k]) \subseteq Range(potentialDifferentServices[k])

\* the blog's three children are registered, each by its own way: tools.acme.com
\* when its page was opened, acmehq.io when its anchor was accepted, /admin when
\* its own handler began
C37_Witness ==
  /\ AcmeBlog \in DOMAIN startUrlChildren
  /\ {AcmeTools, AcmeHq, AcmeAdmin} \subseteq Range(startUrlChildren[AcmeBlog])
  /\ {AcmeTools, AcmeHq, AcmeAdmin} \subseteq Range(potentialDifferentServices[AcmeBlog])
  /\ AcmeAdmin \in DOMAIN allExploredUrls

\* C38: when the links of a request are extracted and enqueued, the page is at
\* the URL it was loaded at for the request, and so it is for every candidate
\* that is probed
C38_PageAtRequestUrl ==
  \A h \in running :
    h.pc \in {"Probing", "ExtractingLinks", "Enqueuing"} => h.pageUrl = h.loadedUrl

\* the links of the seed are about to be extracted from the document of
\* another hostname, which a click on an earlier candidate navigated the page to
C38_ExtractsFromOtherDocument ==
  \E h \in running :
    /\ h.pc = "ExtractingLinks"
    /\ h.request.label = "start"
    /\ h.pageUrl = AcmeTools
    /\ hostname(h.pageUrl) # hostname(h.request.url)

\* the entry of the registry under the key k is what it was
SameEntry(registry, registryAfter, k) ==
  /\ (k \in DOMAIN registryAfter) = (k \in DOMAIN registry)
  /\ k \in DOMAIN registry => registryAfter[k] = registry[k]

RegistryKeys ==
  DOMAIN allExploredUrls \cup DOMAIN potentialDifferentServices
    \cup DOMAIN startUrlChildren \cup DOMAIN allExploredUrls'
    \cup DOMAIN potentialDifferentServices' \cup DOMAIN startUrlChildren'

\* C39: while a crawl runs, a step of the handler of a request changes
\* allExploredUrls and potentialDifferentServices under the request's URL only
\* and startUrlChildren under the request's URL and its parentUrl only, and a
\* step with no handler changes no registry
C39_RegistryFrame ==
  [][(sessionPc = "crawling" /\ sessionPc' = "crawling") =>
       /\ running = {} => UNCHANGED registries
       /\ \A h \in running : \A k \in RegistryKeys :
            /\ k # h.request.url =>
                 /\ SameEntry(allExploredUrls, allExploredUrls', k)
                 /\ SameEntry(potentialDifferentServices, potentialDifferentServices', k)
            /\ k \notin {h.request.url, h.request.parentUrl} =>
                 SameEntry(startUrlChildren, startUrlChildren', k)]_vars

\* the handler of the child /admin runs: it has registered its URL under its
\* parent, the blog, and has its own explored list next to the blog's
C39_Witness ==
  \E h \in running :
    /\ h.request.url = AcmeAdmin
    /\ h.request.parentUrl = AcmeBlog
    /\ h.pc # "Loading"
    /\ AcmeAdmin \in Range(startUrlChildren[AcmeBlog])
    /\ AcmeAdmin \in DOMAIN allExploredUrls
    /\ allExploredUrls[AcmeAdmin] # << >>
    /\ allExploredUrls[AcmeBlog] # << >>


====
